---- MODULE Spec2Model ----
(***************************************************************************)
(* A model of the hash_rings crate: the consistent, multi-probe (mpc),     *)
(* rendezvous, weighted rendezvous, CARP, jump and maglev hashing rings.   *)
(*                                                                         *)
(* Hashes are HashMod-valued instead of 64-bit; every wrapping operation   *)
(* of the source is taken modulo HashMod.  A hash builder is a pair of     *)
(* coefficients, so that the builders cover injective hashes as well as    *)
(* hashes under which distinct values collide (the rings are generic in    *)
(* H: BuildHasher, so every deterministic hash is a legal builder).        *)
(***************************************************************************)
EXTENDS Integers, Sequences, FiniteSets, TLC

VARIABLES
    ring,       \* the ring under test (a record, one shape per ring type)
    call,       \* the last public call made on `ring` and what it returned
    panicked,   \* TRUE once a call has ended in a panic (terminal)
    twin,       \* a second ring built like `ring`, called independently
    frame       \* the locals of the call that is running, for stepwise loops

vars == <<ring, call, panicked, twin, frame>>

----------------------------------------------------------------------------
(* Bounds *)

HashMod == 8            \* hashes are 0 .. HashMod-1 (u64 in the source)
NumIds == 2             \* node ids are 1 .. NumIds
MaxReplicas == 2        \* replica counts are 0 .. MaxReplicas
MaxWeight == 3          \* weights are 1 .. MaxWeight units of half an f64::EPSILON
MaxHashCount == 2       \* MPC hash_count is 1 .. MaxHashCount
NumSipKeys == 3         \* SipHasher keys are 0 .. NumSipKeys-1
MaxCarpInput == 2       \* carp::Ring::new is handed at most MaxCarpInput nodes
JumpBits == 8           \* jump key hashes have JumpBits bits (64 in the source)
MaxBuckets == 6         \* jump rings have 1 .. MaxBuckets nodes
MaxHint == 8            \* maglev capacity hints are 1 .. MaxHint
MaxMaglevNodes == 3     \* with_capacity_hint is handed at most MaxMaglevNodes nodes
MaxNewNodes == 1        \* maglev::Ring::new is handed at most MaxNewNodes nodes

Hashes == 0 .. (HashMod - 1)
U64Max == HashMod - 1
Ids == 1 .. NumIds
Points == Hashes
ReplicaCounts == 0 .. MaxReplicas
Weights == 1 .. MaxWeight
HashCounts == 1 .. MaxHashCount
SipKeys == 0 .. (NumSipKeys - 1)
Builders == [mul : Hashes, add : Hashes]

EmptyMap == <<>>
NoCall == [op |-> "none"]
NoRing == [kind |-> "none"]
Idle == [pc |-> "idle"]

(* Option<T>: None is the empty sequence, Some(x) the one-element sequence. *)
None == <<>>
Some(x) == <<x>>
Min(S) == CHOOSE k \in S : \A o \in S : k <= o

(* Map helpers standing for BTreeMap / HashMap insert and remove. *)
MapInsert(m, k, v) == [x \in (DOMAIN m) \cup {k} |-> IF x = k THEN v ELSE m[x]]
MapRemove(m, k) == [x \in (DOMAIN m) \ {k} |-> m[x]]
RemoveAt(s, i) == [k \in 1 .. (Len(s) - 1) |-> IF k < i THEN s[k] ELSE s[k + 1]]

----------------------------------------------------------------------------
(* util: hashing.  The hasher built from a builder absorbs one word at a   *)
(* time; gen_hash feeds it the value, combine_hash feeds it both hashes in *)
(* order.                                                                  *)

HasherWrite(b, s, x) == (b.mul * (s + x) + b.add) % HashMod

gen_hash(b, value) == HasherWrite(b, 0, value)

combine_hash(b, h1, h2) == HasherWrite(b, HasherWrite(b, 0, h1), h2)

(* SipHasher with keys `key`, as used by mpc and maglev.  Key 0 hashes     *)
(* every item to the same value, key 1 is injective, the others in between. *)
sip_hash(key, item) == (key * item + (key \div 2)) % HashMod

----------------------------------------------------------------------------
(* consistent::Ring *)

consistent_with_hasher(hash_builder) ==
    [kind |-> "consistent", nodes |-> EmptyMap, replicas |-> EmptyMap,
     hash_builder |-> hash_builder]

consistent_replica_hash(r, id, i) ==
    combine_hash(r.hash_builder, gen_hash(r.hash_builder, id),
                 gen_hash(r.hash_builder, i))

(* get_next_node with the range starting above the hash. *)
consistent_get_next_node_above(r, hash) ==
    LET keys == DOMAIN r.nodes
        ge == {k \in keys : k > hash}
    IN  IF ge # {} THEN Some(r.nodes[Min(ge)])
        ELSE IF keys # {} THEN Some(r.nodes[Min(keys)])
        ELSE None

(* Smallest key >= hash, else the smallest key; None on an empty map. *)
consistent_get_next_node(r, hash) ==
    LET keys == DOMAIN r.nodes
        ge == {k \in keys : k >= hash}
    IN  IF ge # {} THEN Some(r.nodes[Min(ge)])
        ELSE IF keys # {} THEN Some(r.nodes[Min(keys)])
        ELSE None

RECURSIVE consistent_insert_loop(_, _, _, _)
consistent_insert_loop(r, id, i, replicas) ==
    IF i >= replicas THEN r.nodes
    ELSE LET rest == [r EXCEPT !.nodes =
                         MapInsert(r.nodes, consistent_replica_hash(r, id, i), id)]
         IN  consistent_insert_loop(rest, id, i + 1, replicas)

consistent_insert_node(r, id, replicas) ==
    [r EXCEPT !.nodes = consistent_insert_loop(r, id, 0, replicas),
              !.replicas = MapInsert(r.replicas, id, replicas)]

(* self.replicas[id] panics when id is not a key of the map. *)
consistent_remove_panics(r, id) == id \notin DOMAIN r.replicas

RECURSIVE consistent_remove_loop(_, _, _, _)
consistent_remove_loop(r, id, i, count) ==
    IF i >= count THEN r.nodes
    ELSE LET hash == consistent_replica_hash(r, id, i)
             should_remove == hash \in DOMAIN r.nodes /\ r.nodes[hash] = id
             rest == IF should_remove
                     THEN [r EXCEPT !.nodes = MapRemove(r.nodes, hash)]
                     ELSE r
         IN  consistent_remove_loop(rest, id, i + 1, count)

consistent_remove_node(r, id) ==
    [r EXCEPT !.nodes = consistent_remove_loop(r, id, 0, r.replicas[id]),
              !.replicas = MapRemove(r.replicas, id)]

(* Some(node), or None for panic!("Error: empty ring."). *)
consistent_get_node(r, point) ==
    consistent_get_next_node(r, gen_hash(r.hash_builder, point))

consistent_len(r) == Cardinality(DOMAIN r.replicas)

consistent_is_empty(r) == DOMAIN r.replicas = {}

----------------------------------------------------------------------------
(* mpc::Ring *)

(* Largest prime below the hash modulus (0xFFFF_FFFF_FFFF_FFC5 for u64). *)
IsPrime(n) == n >= 2 /\ \A d \in 2 .. (n - 1) : n % d # 0
PRIME == CHOOSE p \in 2 .. HashMod : IsPrime(p) /\ \A q \in (p + 1) .. (HashMod - 1) : ~IsPrime(q)

mpc_with_hasher(hash_builder, hash_count, hashers) ==
    [kind |-> "mpc", nodes |-> EmptyMap, hash_count |-> hash_count,
     hashers |-> hashers, hash_builder |-> hash_builder]

mpc_get_hashes(r, item) ==
    <<sip_hash(r.hashers[1], item), sip_hash(r.hashers[2], item)>>

mpc_get_distance(hash, next_hash) ==
    IF hash > next_hash
    THEN next_hash + (U64Max - hash)
    ELSE next_hash - hash

(* Some(position), or None for panic!("Error: empty ring."). *)
mpc_get_next_hash(r, hash) ==
    LET keys == DOMAIN r.nodes
        ge == {k \in keys : k >= hash}
    IN  IF ge # {} THEN Some(Min(ge))
        ELSE IF keys # {} THEN Some(Min(keys))
        ELSE None

mpc_insert_node(r, id) ==
    [r EXCEPT !.nodes = MapInsert(r.nodes, gen_hash(r.hash_builder, id), id)]

mpc_remove_node(r, id) ==
    [r EXCEPT !.nodes = MapRemove(r.nodes, gen_hash(r.hash_builder, id))]

mpc_probe(r, hashes, i) ==
    (hashes[1] + (((i * hashes[2]) % HashMod) % PRIME)) % HashMod

(* The tuple order with equal distances decided for the larger next_hash. *)
TupleLess_larger_next_hash(a, b) == a[1] < b[1] \/ (a[1] = b[1] /\ a[2] > b[2])

(* Lexicographic order of the (distance, next_hash) tuples. *)
TupleLess(a, b) == a[1] < b[1] \/ (a[1] = b[1] /\ a[2] < b[2])

mpc_get_node(r, point) ==
    LET hashes == mpc_get_hashes(r, point)
        tuples == {<<mpc_get_distance(mpc_probe(r, hashes, i),
                                      mpc_get_next_hash(r, mpc_probe(r, hashes, i))[1]),
                     mpc_get_next_hash(r, mpc_probe(r, hashes, i))[1]>> :
                   i \in 0 .. (r.hash_count - 1)}
        hash == CHOOSE t \in tuples : \A o \in tuples : t = o \/ TupleLess(t, o)
    IN  IF DOMAIN r.nodes = {} THEN None
        ELSE Some(r.nodes[hash[2]])

mpc_len(r) == Cardinality(DOMAIN r.nodes)

mpc_is_empty(r) == DOMAIN r.nodes = {}

----------------------------------------------------------------------------
(* rendezvous::Ring *)

rendezvous_with_hasher(hash_builder) ==
    [kind |-> "rendezvous", nodes |-> EmptyMap, hash_builder |-> hash_builder]

rendezvous_insert_node(r, id, replicas) ==
    LET hashes == [index \in 1 .. replicas |->
                      combine_hash(r.hash_builder, gen_hash(r.hash_builder, id),
                                   gen_hash(r.hash_builder, index - 1))]
    IN  [r EXCEPT !.nodes = MapInsert(r.nodes, id, hashes)]

rendezvous_remove_node(r, id) ==
    [r EXCEPT !.nodes = MapRemove(r.nodes, id)]

(* The least element where max() takes the greatest. *)
Max_takes_least(S) == CHOOSE k \in S : \A o \in S : k <= o

Max(S) == CHOOSE k \in S : \A o \in S : k >= o

(* Some(node); None when an expect() panics: a node without replicas      *)
(* ("Expected non-zero number of replicas.") or no node at all            *)
(* ("Expected non-empty ring.").                                          *)
rendezvous_get_node(r, id) ==
    LET point_hash == gen_hash(r.hash_builder, id)
        score(n) == Max({combine_hash(r.hash_builder, r.nodes[n][k], point_hash) :
                         k \in 1 .. Len(r.nodes[n])})
        entries == {<<score(n), n>> : n \in DOMAIN r.nodes}
        best == CHOOSE t \in entries : \A o \in entries : t = o \/ TupleLess(o, t)
    IN  IF \E n \in DOMAIN r.nodes : Len(r.nodes[n]) = 0 THEN None
        ELSE IF DOMAIN r.nodes = {} THEN None
        ELSE Some(best[2])

rendezvous_len(r) == Cardinality(DOMAIN r.nodes)

rendezvous_is_empty(r) == DOMAIN r.nodes = {}

----------------------------------------------------------------------------
(* weighted_rendezvous::Ring.  `nodes` is the HashMap<&T, f64> written as  *)
(* the sequence of its entries in iteration order; weights are whole       *)
(* numbers.                                                                *)

RECURSIVE Pow(_, _)
Pow(b, e) == IF e = 0 THEN 1 ELSE b * Pow(b, e - 1)

IndexOf(nodes, id) ==
    IF \E k \in 1 .. Len(nodes) : nodes[k].id = id
    THEN Some(CHOOSE k \in 1 .. Len(nodes) : nodes[k].id = id)
    ELSE None

InsertAt(s, i, x) ==
    [k \in 1 .. (Len(s) + 1) |-> IF k < i THEN s[k] ELSE IF k = i THEN x ELSE s[k - 1]]

weighted_with_hasher(hash_builder) ==
    [kind |-> "weighted", nodes |-> <<>>, hash_builder |-> hash_builder]

(* `slot` is the place in iteration order the hash map gives a new key. *)
weighted_insert_node(r, id, weight, slot) ==
    LET at == IndexOf(r.nodes, id)
    IN  IF at # None
        THEN [r EXCEPT !.nodes[at[1]].weight = weight]
        ELSE [r EXCEPT !.nodes = InsertAt(r.nodes, slot, [id |-> id, weight |-> weight])]

weighted_remove_node(r, id) ==
    LET at == IndexOf(r.nodes, id)
    IN  IF at # None THEN [r EXCEPT !.nodes = RemoveAt(r.nodes, at[1])] ELSE r

(* The score -weight / ln(hash / u64::MAX) of a node, kept as the pair it is *)
(* computed from.  hash = u64::MAX gives ln(1) = 0 and the score -inf,       *)
(* hash = 0 gives ln(0) = -inf and the score 0; every other score is         *)
(* positive and ordered as weight / |ln(hash / MAX)|.                        *)
weighted_score(r, entry, point_hash) ==
    [hash |-> combine_hash(r.hash_builder, gen_hash(r.hash_builder, entry.id), point_hash),
     weight |-> entry.weight]

(* The ratio hash as f64 / u64::max_value() as f64 whose logarithm divides  *)
(* the weight, as numerator and denominator: the hash is used as it is.    *)
weighted_ratio(s) == [num |-> s.hash, den |-> U64Max]

ScoreClass(s) == IF s.hash = U64Max THEN 0 ELSE IF s.hash = 0 THEN 1 ELSE 2

(* partial_cmp of two scores: "Less", "Equal" or "Greater". *)
weighted_score_cmp(a, b) ==
    IF ScoreClass(a) # ScoreClass(b)
    THEN (IF ScoreClass(a) < ScoreClass(b) THEN "Less" ELSE "Greater")
    ELSE IF ScoreClass(a) < 2 THEN "Equal"
    ELSE LET lhs == Pow(a.hash, b.weight) * Pow(U64Max, a.weight)
             rhs == Pow(b.hash, a.weight) * Pow(U64Max, b.weight)
         IN  IF lhs < rhs THEN "Less" ELSE IF lhs = rhs THEN "Equal" ELSE "Greater"

IdCmp(a, b) == IF a < b THEN "Less" ELSE IF a = b THEN "Equal" ELSE "Greater"

(* The closure handed to max_by. *)
weighted_compare(n, m) ==
    IF weighted_score_cmp(n[1], m[1]) = "Equal" /\ n[2] = m[2]
    THEN IdCmp(n[2], m[2])
    ELSE weighted_score_cmp(n[1], m[1])

(* Iterator::max_by: the last of the greatest elements. *)
RECURSIVE weighted_max_by(_, _, _)
weighted_max_by(items, k, best) ==
    IF k > Len(items) THEN best
    ELSE weighted_max_by(items, k + 1,
            IF weighted_compare(best, items[k]) = "Greater" THEN best ELSE items[k])

(* Some(node), or None for the panic of expect("Expected non-empty ring."). *)
weighted_get_node(r, point) ==
    LET point_hash == gen_hash(r.hash_builder, point)
        items == [k \in 1 .. Len(r.nodes) |->
                     <<weighted_score(r, r.nodes[k], point_hash), r.nodes[k].id>>]
    IN  IF Len(r.nodes) = 0 THEN None
        ELSE Some(weighted_max_by(items, 2, items[1])[2])

weighted_len(r) == Len(r.nodes)

weighted_is_empty(r) == Len(r.nodes) = 0

----------------------------------------------------------------------------
(* carp::Ring.  Weights are whole multiples of half an f64::EPSILON, so    *)
(* two weights one unit apart are different and still closer than          *)
(* f64::EPSILON.                                                           *)

EPSILON == 2            \* f64::EPSILON in weight units

Abs(x) == IF x < 0 THEN -x ELSE x

carp_node_new(id, weight) ==
    [id |-> id, hash |-> 0, weight |-> weight, relative_weight |-> 0]

(* The comparator of sort_by: TRUE when n orders strictly before m. *)
carp_node_less(n, m) ==
    IF Abs(n.weight - m.weight) < EPSILON THEN n.id < m.id ELSE n.weight < m.weight

(* Stable sorts (slice::sort_by, sort_by_key): insert each element behind *)
(* the elements that do not order after it.                               *)
RECURSIVE carp_sort_by(_)
carp_sort_by(nodes) ==
    IF Len(nodes) <= 1 THEN nodes
    ELSE LET front == carp_sort_by(SubSeq(nodes, 1, Len(nodes) - 1))
             x == nodes[Len(nodes)]
             before == {k \in 1 .. Len(front) : carp_node_less(x, front[k])}
             at == IF before = {} THEN Len(front) + 1 ELSE Min(before)
         IN  InsertAt(front, at, x)

RECURSIVE carp_sort_by_key(_)
carp_sort_by_key(nodes) ==
    IF Len(nodes) <= 1 THEN nodes
    ELSE LET front == carp_sort_by_key(SubSeq(nodes, 1, Len(nodes) - 1))
             x == nodes[Len(nodes)]
             before == {k \in 1 .. Len(front) : x.id < front[k].id}
             at == IF before = {} THEN Len(front) + 1 ELSE Min(before)
         IN  InsertAt(front, at, x)

Reverse(s) == [k \in 1 .. Len(s) |-> s[Len(s) + 1 - k]]

(* Vec::dedup_by_key: of each run of equal ids the first element is kept. *)
RECURSIVE carp_dedup_by_key(_)
carp_dedup_by_key(nodes) ==
    IF Len(nodes) <= 1 THEN nodes
    ELSE LET front == carp_dedup_by_key(SubSeq(nodes, 1, Len(nodes) - 1))
             x == nodes[Len(nodes)]
         IN  IF front[Len(front)].id = x.id THEN front ELSE Append(front, x)

(* rebalance.  With n nodes and P(i) the product of the first i results,   *)
(* the i-th result res (0-based) satisfies                                 *)
(*   res^(n-i) * P(i) = (n-i) * (w[i] - w[i-1]) + res[i-1]^(n-i+1) * P(i-1) *)
(* and res[0]^n = n * w[0].  relative_weight holds that whole number, the  *)
(* load; carp_score_cmp orders the scores built from it.                   *)
RECURSIVE carp_load(_, _)
carp_load(nodes, i) ==
    LET len == Len(nodes)
    IN  IF i = 1 THEN len * nodes[1].weight
        ELSE (len - (i - 1)) * (nodes[i].weight - nodes[i - 1].weight)
             + carp_load(nodes, i - 1)

carp_rebalance(r) ==
    [r EXCEPT !.nodes = [i \in 1 .. Len(r.nodes) |->
                            [r.nodes[i] EXCEPT !.relative_weight = carp_load(r.nodes, i)]]]

carp_with_hasher(hash_builder, nodes) ==
    LET hashed == [k \in 1 .. Len(nodes) |->
                      [nodes[k] EXCEPT !.hash = gen_hash(hash_builder, nodes[k].id)]]
        sorted == carp_sort_by(carp_dedup_by_key(carp_sort_by_key(Reverse(hashed))))
    IN  carp_rebalance([kind |-> "carp", nodes |-> sorted, hash_builder |-> hash_builder])

carp_insert_node(r, node) ==
    LET new_node == [node EXCEPT !.hash = gen_hash(r.hash_builder, node.id)]
        index == IndexOf(r.nodes, new_node.id)
        placed == IF index # None
                  THEN [r.nodes EXCEPT ![index[1]] = new_node]
                  ELSE Append(r.nodes, new_node)
    IN  carp_rebalance([r EXCEPT !.nodes = carp_sort_by(placed)])

carp_remove_node(r, id) ==
    LET index == IndexOf(r.nodes, id)
    IN  IF index # None
        THEN carp_rebalance([r EXCEPT !.nodes = RemoveAt(r.nodes, index[1])])
        ELSE r

carp_len(r) == Len(r.nodes)

carp_is_empty(r) == Len(r.nodes) = 0

RECURSIVE Factorial(_)
Factorial(n) == IF n <= 1 THEN 1 ELSE n * Factorial(n - 1)

(* The score combine_hash(node.hash, point_hash) as f64 * relative_weight  *)
(* of the node at `index`, kept as the pair it is computed from.           *)
carp_score(r, index, point_hash) ==
    [hash |-> combine_hash(r.hash_builder, r.nodes[index].hash, point_hash),
     index |-> index]

(* Product over i in from .. to-1 of load(i + shift)^(d / (n - i)): the    *)
(* d-th power of relative_weight[to] / relative_weight[from] is the        *)
(* quotient of the products with shift 1 and shift 0.                      *)
RECURSIVE carp_load_product(_, _, _, _, _)
carp_load_product(nodes, from, to, shift, d) ==
    IF from >= to THEN 1
    ELSE Pow(nodes[from + shift].relative_weight, d \div (Len(nodes) - from))
         * carp_load_product(nodes, from + 1, to, shift, d)

(* partial_cmp of two scores of one ring. *)
carp_score_cmp(nodes, a, b) ==
    LET d == Factorial(Len(nodes) - 1)
        lo == IF a.index <= b.index THEN a ELSE b
        hi == IF a.index <= b.index THEN b ELSE a
        lhs == Pow(lo.hash, d) * carp_load_product(nodes, lo.index, hi.index, 0, d)
        rhs == Pow(hi.hash, d) * carp_load_product(nodes, lo.index, hi.index, 1, d)
        lo_hi == IF lhs < rhs THEN "Less" ELSE IF lhs = rhs THEN "Equal" ELSE "Greater"
    IN  IF a.index <= b.index THEN lo_hi
        ELSE IF lo_hi = "Less" THEN "Greater"
        ELSE IF lo_hi = "Greater" THEN "Less" ELSE "Equal"

(* The closure handed to max_by. *)
carp_compare(nodes, n, m) ==
    IF carp_score_cmp(nodes, n[1], m[1]) = "Equal" /\ n[2] = m[2]
    THEN IdCmp(n[2], m[2])
    ELSE carp_score_cmp(nodes, n[1], m[1])

RECURSIVE carp_max_by(_, _, _, _)
carp_max_by(nodes, items, k, best) ==
    IF k > Len(items) THEN best
    ELSE carp_max_by(nodes, items, k + 1,
            IF carp_compare(nodes, best, items[k]) = "Greater" THEN best ELSE items[k])

(* Some(node), or None for the panic of expect("Expected non-empty ring."). *)
carp_get_node(r, point) ==
    LET point_hash == gen_hash(r.hash_builder, point)
        items == [k \in 1 .. Len(r.nodes) |->
                     <<carp_score(r, k, point_hash), r.nodes[k].id>>]
    IN  IF Len(r.nodes) = 0 THEN None
        ELSE Some(carp_max_by(r.nodes, items, 2, items[1])[2])

----------------------------------------------------------------------------
(* The rings with insert_node / remove_node as one state machine: the      *)
(* program constructs one ring and then calls its methods in any order.    *)
(* A panic ends the run.                                                   *)

CarpInputs == UNION {[1 .. n -> {carp_node_new(id, w) : id \in Ids, w \in Weights}] :
                     n \in 0 .. MaxCarpInput}

InitialRings ==
    {consistent_with_hasher(b) : b \in Builders}
    \cup {rendezvous_with_hasher(b) : b \in Builders}
    \cup {weighted_with_hasher(b) : b \in Builders}
    \cup {mpc_with_hasher(b, c, hs) : b \in Builders, c \in HashCounts,
                                      hs \in SipKeys \X SipKeys}
    \cup {carp_with_hasher(b, nodes) : b \in Builders, nodes \in CarpInputs}

Init ==
    /\ ring \in InitialRings
    /\ call = NoCall
    /\ panicked = FALSE
    /\ twin = NoRing
    /\ frame = Idle

Returned(op, arg, before, result) ==
    [op |-> op, arg |-> arg, before |-> before, result |-> result]

ConsistentInsertNode(id, replicas) ==
    /\ ~panicked /\ ring.kind = "consistent"
    /\ ring' = consistent_insert_node(ring, id, replicas)
    /\ call' = Returned("insert_node", id, ring, Some(replicas))
    /\ UNCHANGED <<panicked, twin, frame>>

ConsistentRemoveNode(id) ==
    /\ ~panicked /\ ring.kind = "consistent"
    /\ IF consistent_remove_panics(ring, id)
       THEN /\ panicked' = TRUE
            /\ call' = Returned("remove_node", id, ring, None)
            /\ UNCHANGED <<ring, twin, frame>>
       ELSE /\ ring' = consistent_remove_node(ring, id)
            /\ call' = Returned("remove_node", id, ring, Some(id))
            /\ UNCHANGED <<panicked, twin, frame>>

ConsistentGetNode(point) ==
    /\ ~panicked /\ ring.kind = "consistent"
    /\ call' = Returned("get_node", point, ring, consistent_get_node(ring, point))
    /\ panicked' = (consistent_get_node(ring, point) = None)
    /\ UNCHANGED <<ring, twin, frame>>

MpcInsertNode(id) ==
    /\ ~panicked /\ ring.kind = "mpc"
    /\ ring' = mpc_insert_node(ring, id)
    /\ call' = Returned("insert_node", id, ring, Some(id))
    /\ UNCHANGED <<panicked, twin, frame>>

MpcRemoveNode(id) ==
    /\ ~panicked /\ ring.kind = "mpc"
    /\ ring' = mpc_remove_node(ring, id)
    /\ call' = Returned("remove_node", id, ring, Some(id))
    /\ UNCHANGED <<panicked, twin, frame>>

MpcGetNode(point) ==
    /\ ~panicked /\ ring.kind = "mpc"
    /\ call' = Returned("get_node", point, ring, mpc_get_node(ring, point))
    /\ panicked' = (mpc_get_node(ring, point) = None)
    /\ UNCHANGED <<ring, twin, frame>>

RendezvousInsertNode(id, replicas) ==
    /\ ~panicked /\ ring.kind = "rendezvous"
    /\ ring' = rendezvous_insert_node(ring, id, replicas)
    /\ call' = Returned("insert_node", id, ring, Some(replicas))
    /\ UNCHANGED <<panicked, twin, frame>>

RendezvousRemoveNode(id) ==
    /\ ~panicked /\ ring.kind = "rendezvous"
    /\ ring' = rendezvous_remove_node(ring, id)
    /\ call' = Returned("remove_node", id, ring, Some(id))
    /\ UNCHANGED <<panicked, twin, frame>>

RendezvousGetNode(point) ==
    /\ ~panicked /\ ring.kind = "rendezvous"
    /\ call' = Returned("get_node", point, ring, rendezvous_get_node(ring, point))
    /\ panicked' = (rendezvous_get_node(ring, point) = None)
    /\ UNCHANGED <<ring, twin, frame>>

WeightedInsertNode(id, weight, slot) ==
    /\ ~panicked /\ ring.kind = "weighted"
    /\ slot <= Len(ring.nodes) + 1
    /\ ring' = weighted_insert_node(ring, id, weight, slot)
    /\ call' = Returned("insert_node", id, ring, Some(weight))
    /\ UNCHANGED <<panicked, twin, frame>>

WeightedRemoveNode(id) ==
    /\ ~panicked /\ ring.kind = "weighted"
    /\ ring' = weighted_remove_node(ring, id)
    /\ call' = Returned("remove_node", id, ring, Some(id))
    /\ UNCHANGED <<panicked, twin, frame>>

WeightedGetNode(point) ==
    /\ ~panicked /\ ring.kind = "weighted"
    /\ call' = Returned("get_node", point, ring, weighted_get_node(ring, point))
    /\ panicked' = (weighted_get_node(ring, point) = None)
    /\ UNCHANGED <<ring, twin, frame>>

CarpInsertNode(id, weight) ==
    /\ ~panicked /\ ring.kind = "carp"
    /\ ring' = carp_insert_node(ring, carp_node_new(id, weight))
    /\ call' = Returned("insert_node", id, ring, Some(weight))
    /\ UNCHANGED <<panicked, twin, frame>>

CarpRemoveNode(id) ==
    /\ ~panicked /\ ring.kind = "carp"
    /\ ring' = carp_remove_node(ring, id)
    /\ call' = Returned("remove_node", id, ring, Some(id))
    /\ UNCHANGED <<panicked, twin, frame>>

CarpGetNode(point) ==
    /\ ~panicked /\ ring.kind = "carp"
    /\ call' = Returned("get_node", point, ring, carp_get_node(ring, point))
    /\ panicked' = (carp_get_node(ring, point) = None)
    /\ UNCHANGED <<ring, twin, frame>>

Next ==
    \/ \E id \in Ids, replicas \in ReplicaCounts : ConsistentInsertNode(id, replicas)
    \/ \E id \in Ids : ConsistentRemoveNode(id)
    \/ \E point \in Points : ConsistentGetNode(point)
    \/ \E id \in Ids : MpcInsertNode(id)
    \/ \E id \in Ids : MpcRemoveNode(id)
    \/ \E point \in Points : MpcGetNode(point)
    \/ \E id \in Ids, replicas \in ReplicaCounts : RendezvousInsertNode(id, replicas)
    \/ \E id \in Ids : RendezvousRemoveNode(id)
    \/ \E point \in Points : RendezvousGetNode(point)
    \/ \E id \in Ids, weight \in Weights, slot \in 1 .. (NumIds + 1) :
          WeightedInsertNode(id, weight, slot)
    \/ \E id \in Ids : WeightedRemoveNode(id)
    \/ \E point \in Points : WeightedGetNode(point)
    \/ \E id \in Ids, weight \in Weights : CarpInsertNode(id, weight)
    \/ \E id \in Ids : CarpRemoveNode(id)
    \/ \E point \in Points : CarpGetNode(point)

Spec == Init /\ [][Next]_vars

----------------------------------------------------------------------------
(* The consistent ring alone and the mpc ring alone, under the same calls. *)

InitConsistent ==
    /\ ring \in {consistent_with_hasher(b) : b \in Builders}
    /\ call = NoCall
    /\ panicked = FALSE
    /\ twin = NoRing
    /\ frame = Idle

NextConsistent ==
    \/ \E id \in Ids, replicas \in ReplicaCounts : ConsistentInsertNode(id, replicas)
    \/ \E id \in Ids : ConsistentRemoveNode(id)
    \/ \E point \in Points : ConsistentGetNode(point)

SpecConsistent == InitConsistent /\ [][NextConsistent]_vars

InitMpc ==
    /\ ring \in {mpc_with_hasher(b, c, hs) : b \in Builders, c \in HashCounts,
                                              hs \in SipKeys \X SipKeys}
    /\ call = NoCall
    /\ panicked = FALSE
    /\ twin = NoRing
    /\ frame = Idle

NextMpc ==
    \/ \E id \in Ids : MpcInsertNode(id)
    \/ \E id \in Ids : MpcRemoveNode(id)
    \/ \E point \in Points : MpcGetNode(point)

SpecMpc == InitMpc /\ [][NextMpc]_vars

----------------------------------------------------------------------------
(* The rendezvous ring alone, under the same calls. *)

InitRendezvous ==
    /\ ring \in {rendezvous_with_hasher(b) : b \in Builders}
    /\ call = NoCall
    /\ panicked = FALSE
    /\ twin = NoRing
    /\ frame = Idle

NextRendezvous ==
    \/ \E id \in Ids, replicas \in ReplicaCounts : RendezvousInsertNode(id, replicas)
    \/ \E id \in Ids : RendezvousRemoveNode(id)
    \/ \E point \in Points : RendezvousGetNode(point)

SpecRendezvous == InitRendezvous /\ [][NextRendezvous]_vars

----------------------------------------------------------------------------
(* The weight boundary of the two weighted rings: Node::new, with_hasher   *)
(* and insert_node handed any weight, the zero and negative ones too.      *)
(* rebalance then stores in relative_weight the load of such weights; no   *)
(* score is computed here.  A NaN weight is not a whole number and stays   *)
(* outside this range.                                                     *)

AnyWeights == (0 - 1) .. MaxWeight

AnyCarpInputs == UNION {[1 .. n -> {carp_node_new(id, w) : id \in Ids, w \in AnyWeights}] :
                        n \in 0 .. MaxCarpInput}

InitWeights ==
    /\ ring \in {weighted_with_hasher(b) : b \in Builders}
                 \cup {carp_with_hasher(b, nodes) : b \in Builders, nodes \in AnyCarpInputs}
    /\ call = NoCall
    /\ panicked = FALSE
    /\ twin = NoRing
    /\ frame = Idle

NextWeights ==
    \/ \E id \in Ids, weight \in AnyWeights, slot \in 1 .. (NumIds + 1) :
          WeightedInsertNode(id, weight, slot)
    \/ \E id \in Ids : WeightedRemoveNode(id)
    \/ \E id \in Ids, weight \in AnyWeights : CarpInsertNode(id, weight)
    \/ \E id \in Ids : CarpRemoveNode(id)

SpecWeights == InitWeights /\ [][NextWeights]_vars

(* C14: CARP and weighted rendezvous refuse a weight that is not finite    *)
(* and strictly positive: an insert_node handed one fails, and every       *)
(* weight a ring stores is strictly positive.                              *)
C14_WeightValidation ==
    /\ (call.op = "insert_node" /\ call.result[1] <= 0) => panicked
    /\ \A k \in 1 .. Len(ring.nodes) : ring.nodes[k].weight > 0

----------------------------------------------------------------------------
(* What the claims speak about, for any of the rings above. *)

Registered(r) ==
    CASE r.kind = "consistent" -> DOMAIN r.replicas
      [] r.kind = "mpc" -> {r.nodes[k] : k \in DOMAIN r.nodes}
      [] r.kind = "rendezvous" -> DOMAIN r.nodes
      [] OTHER -> {r.nodes[k].id : k \in 1 .. Len(r.nodes)}

RingLen(r) ==
    CASE r.kind = "consistent" -> consistent_len(r)
      [] r.kind = "mpc" -> mpc_len(r)
      [] r.kind = "rendezvous" -> rendezvous_len(r)
      [] r.kind = "weighted" -> weighted_len(r)
      [] OTHER -> carp_len(r)

RingGetNode(r, point) ==
    CASE r.kind = "consistent" -> consistent_get_node(r, point)
      [] r.kind = "mpc" -> mpc_get_node(r, point)
      [] r.kind = "rendezvous" -> rendezvous_get_node(r, point)
      [] r.kind = "weighted" -> weighted_get_node(r, point)
      [] OTHER -> carp_get_node(r, point)

(* C1: on a consistent ring with no registered node, get_node fails with *)
(* the empty-ring panic for every point.                                  *)
C1_EmptyRingFails ==
    (ring.kind = "consistent" /\ consistent_is_empty(ring))
        => \A point \in Points : consistent_get_node(ring, point) = None

(* C2: on a consistent or rendezvous ring with len() >= 1, whatever the   *)
(* replica counts, get_node returns a node for every point.               *)
C2_Totality ==
    (ring.kind \in {"consistent", "rendezvous"} /\ RingLen(ring) >= 1)
        => \A point \in Points : RingGetNode(ring, point) # None

(* C3: a node returned by get_node of the consistent ring is a key of the *)
(* replica-count map.                                                     *)
C3_Membership ==
    ring.kind = "consistent"
        => \A point \in Points :
              consistent_get_node(ring, point) # None
                 => consistent_get_node(ring, point)[1] \in DOMAIN ring.replicas

(* C4: on the consistent, mpc, rendezvous and weighted rendezvous rings   *)
(* insert_node adds 1 to len() exactly when the id was not in the ring,   *)
(* and remove_node subtracts 1 exactly when it was.                       *)
C4_LenInvariants ==
    (call.op \in {"insert_node", "remove_node"} /\ ring.kind # "carp")
        => LET present == call.arg \in Registered(call.before)
           IN  IF call.op = "insert_node"
               THEN RingLen(ring) = RingLen(call.before) + (IF present THEN 0 ELSE 1)
               ELSE RingLen(ring) = RingLen(call.before) - (IF present THEN 1 ELSE 0)

(* C5: remove_node of an id that is not in the ring returns normally and  *)
(* leaves the ring as it was, on every ring with remove_node.             *)
C5_RemoveAbsentNoOp ==
    (call.op = "remove_node" /\ call.arg \notin Registered(call.before))
        => (~panicked /\ ring = call.before)

(* insert_node followed by remove_node of the same id, and the insert alone. *)
RoundTrip(r, id, replicas) ==
    IF r.kind = "consistent"
    THEN consistent_remove_node(consistent_insert_node(r, id, replicas), id)
    ELSE mpc_remove_node(mpc_insert_node(r, id), id)

Transient(r, id, replicas) ==
    IF r.kind = "consistent"
    THEN consistent_insert_node(r, id, replicas)
    ELSE mpc_insert_node(r, id)

(* C6: on the consistent and mpc rings, inserting an id that is not in    *)
(* the ring and removing it again gives every point that kept its node    *)
(* while the id was present the node it had before the insert.            *)
C6_InsertRemoveRoundTrip ==
    ring.kind \in {"consistent", "mpc"}
        => \A id \in Ids \ Registered(ring), replicas \in ReplicaCounts, point \in Points :
              RingGetNode(ring, point) = RingGetNode(Transient(ring, id, replicas), point)
                 => RingGetNode(RoundTrip(ring, id, replicas), point)
                       = RingGetNode(ring, point)

(* C15: the keys of the consistent ring's positions map are exactly the   *)
(* replica hashes combine_hash(h(n), h(i)), 0 <= i < replicas[n], of the   *)
(* registered nodes n, after any sequence of insert_node and remove_node.  *)
C15_PositionsInvariant ==
    ring.kind = "consistent"
        => DOMAIN ring.nodes
              = {consistent_replica_hash(ring, n, i) :
                    <<n, i>> \in {x \in (DOMAIN ring.replicas) \X (0 .. MaxReplicas) :
                                     x[2] < ring.replicas[x[1]]}}

(* C16: get_node on a consistent ring with a non-empty positions map       *)
(* returns the node at the smallest position >= hash(point), or at the     *)
(* smallest position of all when none is >= hash(point).                   *)
C16_ConsistentLookup ==
    (call.op = "get_node" /\ call.before.kind = "consistent"
        /\ DOMAIN call.before.nodes # {})
        => LET positions == call.before.nodes
               h == gen_hash(call.before.hash_builder, call.arg)
               at_or_after == {k \in DOMAIN positions : k >= h}
           IN  /\ ~panicked
               /\ \E k \in DOMAIN positions :
                     /\ call.result = Some(positions[k])
                     /\ IF at_or_after # {}
                        THEN k >= h /\ \A o \in at_or_after : k <= o
                        ELSE \A o \in DOMAIN positions : k <= o
               /\ h \in DOMAIN positions => call.result = Some(positions[h])

(* A lookup that wraps around two positions, and one that hits a position. *)
C16_Witness ==
    /\ call.op = "get_node" /\ call.before.kind = "consistent"
    /\ Cardinality(DOMAIN call.before.nodes) >= 2
    /\ \A k \in DOMAIN call.before.nodes :
          k < gen_hash(call.before.hash_builder, call.arg)
    /\ call.result # None

C18_MpcDistance ==
    (call.op = "get_node" /\ call.before.kind = "mpc" /\ DOMAIN call.before.nodes # {})
        => LET r == call.before
               h == mpc_get_hashes(r, call.arg)
           IN  \A i \in 0 .. (r.hash_count - 1) :
                  LET p == mpc_probe(r, h, i)
                      q == mpc_get_next_hash(r, p)[1]
                  IN  /\ mpc_get_distance(p, q) = (q - p + HashMod) % HashMod
                      /\ mpc_get_distance(p, q) \in 0 .. U64Max

(* C19: the CARP node list holds each id at most once and is sorted        *)
(* ascending by (weight, id), the id deciding between equal weights, after *)
(* construction from any list and after every insert_node and remove_node; *)
(* insert_node of an id in the list replaces its weight.                   *)
C19_CarpListInvariant ==
    ring.kind = "carp"
        => /\ \A k, l \in 1 .. Len(ring.nodes) :
                 ring.nodes[k].id = ring.nodes[l].id => k = l
           /\ \A k \in 1 .. (Len(ring.nodes) - 1) :
                 \/ ring.nodes[k].weight < ring.nodes[k + 1].weight
                 \/ /\ ring.nodes[k].weight = ring.nodes[k + 1].weight
                    /\ ring.nodes[k].id < ring.nodes[k + 1].id
           /\ call.op = "insert_node"
                 => \E k \in 1 .. Len(ring.nodes) :
                       /\ ring.nodes[k].id = call.arg
                       /\ ring.nodes[k].weight = call.result[1]

(* C20: when get_node of a CARP or weighted rendezvous ring finds several  *)
(* nodes with the greatest score, it returns the one of them with the      *)
(* greatest id, whatever their weights and their order in the ring.        *)
C20_ScoreTiesById ==
    (call.op = "get_node" /\ call.before.kind \in {"carp", "weighted"}
        /\ Len(call.before.nodes) >= 1)
        => LET r == call.before
               point_hash == gen_hash(r.hash_builder, call.arg)
               score(k) == IF r.kind = "carp"
                           THEN carp_score(r, k, point_hash)
                           ELSE weighted_score(r, r.nodes[k], point_hash)
               cmp(k, l) == IF r.kind = "carp"
                            THEN carp_score_cmp(r.nodes, score(k), score(l))
                            ELSE weighted_score_cmp(score(k), score(l))
               greatest == {k \in 1 .. Len(r.nodes) :
                               \A l \in 1 .. Len(r.nodes) : cmp(k, l) # "Less"}
           IN  \E k \in greatest :
                  /\ call.result = Some(r.nodes[k].id)
                  /\ \A l \in greatest : r.nodes[l].id <= r.nodes[k].id

(* C22: in get_node of a weighted rendezvous ring, for every node of       *)
(* positive weight the ratio u = h / u64::MAX of its combined hash is       *)
(* strictly greater than 0 and ln(u) is not zero, that is u is not 1, so    *)
(* that -w / ln(u) never divides by zero.                                   *)
C22_ScoreWellDefined ==
    (call.op = "get_node" /\ call.before.kind = "weighted")
        => LET r == call.before
               point_hash == gen_hash(r.hash_builder, call.arg)
           IN  \A k \in 1 .. Len(r.nodes) :
                  r.nodes[k].weight > 0
                     => LET u == weighted_ratio(weighted_score(r, r.nodes[k], point_hash))
                        IN  /\ u.num > 0
                            /\ u.num # u.den

(* C21: a rendezvous ring holds for every node its replica hashes          *)
(* combine_hash(hash(id), hash(i)), i < replicas; when every node has at   *)
(* least one, get_node returns the node whose greatest                     *)
(* combine_hash(replica hash, hash(point)) is greatest of all nodes, and   *)
(* of several such nodes the one with the greatest id.                     *)
C21_RendezvousLookup ==
    /\ ring.kind = "rendezvous"
          => \A n \in DOMAIN ring.nodes : \A i \in 1 .. Len(ring.nodes[n]) :
                ring.nodes[n][i]
                   = combine_hash(ring.hash_builder, gen_hash(ring.hash_builder, n),
                                  gen_hash(ring.hash_builder, i - 1))
    /\ (call.op = "get_node" /\ call.before.kind = "rendezvous"
          /\ DOMAIN call.before.nodes # {}
          /\ \A n \in DOMAIN call.before.nodes : Len(call.before.nodes[n]) >= 1)
          => LET r == call.before
                 point_hash == gen_hash(r.hash_builder, call.arg)
                 greatest(n) ==
                     CHOOSE x \in {combine_hash(r.hash_builder, r.nodes[n][i], point_hash) :
                                      i \in 1 .. Len(r.nodes[n])} :
                        \A i \in 1 .. Len(r.nodes[n]) :
                           combine_hash(r.hash_builder, r.nodes[n][i], point_hash) <= x
             IN  /\ ~panicked
                 /\ \E n \in DOMAIN r.nodes :
                       /\ call.result = Some(n)
                       /\ \A o \in DOMAIN r.nodes :
                             \/ greatest(o) < greatest(n)
                             \/ greatest(o) = greatest(n) /\ o <= n

(* Two nodes of two replicas each, whose replicas score differently, with  *)
(* the same greatest score: the greater id is returned.                    *)
C21_Witness ==
    /\ call.op = "get_node" /\ call.before.kind = "rendezvous"
    /\ DOMAIN call.before.nodes = {1, 2}
    /\ \A n \in {1, 2} : Len(call.before.nodes[n]) = 2
    /\ LET r == call.before
           point_hash == gen_hash(r.hash_builder, call.arg)
           scores(n) == {combine_hash(r.hash_builder, r.nodes[n][i], point_hash) : i \in 1 .. 2}
       IN  /\ Cardinality(scores(1)) = 2
           /\ Max(scores(1)) = Max(scores(2))
    /\ call.result = Some(2)

----------------------------------------------------------------------------
(* Two rings of one type, built with the same hash builder (and, for mpc,  *)
(* the same hashers and hash_count; for CARP, from the same node list),    *)
(* each taking its own sequence of insert_node / remove_node calls.        *)

RingInsertNode(r, id, arg, slot) ==
    CASE r.kind = "consistent" -> consistent_insert_node(r, id, arg)
      [] r.kind = "mpc" -> mpc_insert_node(r, id)
      [] r.kind = "rendezvous" -> rendezvous_insert_node(r, id, arg)
      [] r.kind = "weighted" -> weighted_insert_node(r, id, arg, slot)
      [] OTHER -> carp_insert_node(r, carp_node_new(id, arg))

RingRemovePanics(r, id) == r.kind = "consistent" /\ consistent_remove_panics(r, id)

RingRemoveNode(r, id) ==
    CASE r.kind = "consistent" -> consistent_remove_node(r, id)
      [] r.kind = "mpc" -> mpc_remove_node(r, id)
      [] r.kind = "rendezvous" -> rendezvous_remove_node(r, id)
      [] r.kind = "weighted" -> weighted_remove_node(r, id)
      [] OTHER -> carp_remove_node(r, id)

(* The arguments insert_node takes on a ring of this type. *)
InsertArgs(r) ==
    CASE r.kind \in {"consistent", "rendezvous"} -> ReplicaCounts
      [] r.kind = "mpc" -> {0}
      [] OTHER -> Weights

InsertSlots(r) == IF r.kind = "weighted" THEN 1 .. (Len(r.nodes) + 1) ELSE {1}

InitTwin ==
    /\ ring \in InitialRings
    /\ twin = ring
    /\ call = NoCall
    /\ panicked = FALSE
    /\ frame = Idle

FirstInsertNode(id) ==
    /\ ~panicked
    /\ \E arg \in InsertArgs(ring), slot \in InsertSlots(ring) :
          ring' = RingInsertNode(ring, id, arg, slot)
    /\ UNCHANGED <<call, panicked, twin, frame>>

FirstRemoveNode(id) ==
    /\ ~panicked
    /\ IF RingRemovePanics(ring, id)
       THEN panicked' = TRUE /\ UNCHANGED ring
       ELSE ring' = RingRemoveNode(ring, id) /\ UNCHANGED panicked
    /\ UNCHANGED <<call, twin, frame>>

SecondInsertNode(id) ==
    /\ ~panicked
    /\ \E arg \in InsertArgs(twin), slot \in InsertSlots(twin) :
          twin' = RingInsertNode(twin, id, arg, slot)
    /\ UNCHANGED <<call, panicked, ring, frame>>

SecondRemoveNode(id) ==
    /\ ~panicked
    /\ IF RingRemovePanics(twin, id)
       THEN panicked' = TRUE /\ UNCHANGED twin
       ELSE twin' = RingRemoveNode(twin, id) /\ UNCHANGED panicked
    /\ UNCHANGED <<call, ring, frame>>

NextTwin ==
    \/ \E id \in Ids : FirstInsertNode(id)
    \/ \E id \in Ids : FirstRemoveNode(id)
    \/ \E id \in Ids : SecondInsertNode(id)
    \/ \E id \in Ids : SecondRemoveNode(id)

SpecTwin == InitTwin /\ [][NextTwin]_vars

(* The registered node set of a ring, with replica counts or weights. *)
NodeSet(r) ==
    CASE r.kind = "consistent" -> r.replicas
      [] r.kind = "mpc" -> Registered(r)
      [] r.kind = "rendezvous" -> [id \in DOMAIN r.nodes |-> Len(r.nodes[id])]
      [] OTHER -> {<<r.nodes[k].id, r.nodes[k].weight>> : k \in 1 .. Len(r.nodes)}

(* C7: two rings with the same hash builder that hold the same node set    *)
(* with the same replica counts or weights, however they got there, return *)
(* the same node for every point.                                          *)
C7_Determinism ==
    NodeSet(ring) = NodeSet(twin)
        => \A point \in Points : RingGetNode(ring, point) = RingGetNode(twin, point)

----------------------------------------------------------------------------
(* jump::Ring.  The key hash has JumpBits bits; the shift by 33 of the     *)
(* 64-bit hash and the factor 1 << 31 keep their proportion (the shift     *)
(* leaves JumpBits - JumpShift bits, and JumpScale is 2 to that power).    *)
(* At this width the f64 product and quotient are exact, so the cast to    *)
(* i64 is the floor of the quotient.                                       *)

JumpHashMod == Pow(2, JumpBits)
JumpShift == (JumpBits \div 2) + 1
JumpScale == Pow(2, JumpBits - JumpShift)
JumpMultiplier == 253   \* 2_862_933_555_777_941_757 modulo 2^12
U32Mod == Pow(2, JumpBits \div 2)

jump_with_hasher(nodes) == [kind |-> "jump", nodes |-> nodes]

jump_get_node_entry(key_hash) == [pc |-> "loop", key |-> key_hash, h |-> key_hash, i |-> 0 - 1, j |-> 0]

jump_loop_continues_off_by_one(r, f) == f.j <= r.nodes

jump_loop_continues_one_short(r, f) == f.j < r.nodes - 1

(* while j < i64::from(self.nodes) *)
jump_loop_continues(r, f) == f.j < r.nodes

jump_loop_body(f) ==
    LET i == f.j
        h == (f.h * JumpMultiplier + 1) % JumpHashMod
        j == ((i + 1) * JumpScale) \div ((h \div Pow(2, JumpShift)) + 1)
    IN  [f EXCEPT !.i = i, !.h = h, !.j = j]

(* i as u32 *)
jump_result(f) == f.i % U32Mod

InitJump ==
    /\ ring \in {jump_with_hasher(nodes) : nodes \in 1 .. MaxBuckets}
    /\ call = NoCall
    /\ panicked = FALSE
    /\ twin = NoRing
    /\ frame = Idle

JumpGetNode(key_hash) ==
    /\ frame.pc = "idle"
    /\ frame' = jump_get_node_entry(key_hash)
    /\ call' = NoCall
    /\ UNCHANGED <<ring, panicked, twin>>

JumpLoop ==
    /\ frame.pc = "loop"
    /\ jump_loop_continues(ring, frame)
    /\ frame' = jump_loop_body(frame)
    /\ UNCHANGED <<ring, call, panicked, twin>>

JumpReturn ==
    /\ frame.pc = "loop"
    /\ ~jump_loop_continues(ring, frame)
    /\ call' = Returned("get_node", frame.key, ring, Some(jump_result(frame)))
    /\ frame' = Idle
    /\ UNCHANGED <<ring, panicked, twin>>

NextJump ==
    \/ \E key_hash \in 0 .. (JumpHashMod - 1) : JumpGetNode(key_hash)
    \/ JumpLoop
    \/ JumpReturn

SpecJump == InitJump /\ [][NextJump]_vars

(* C8: get_node of a jump ring with n_buckets >= 1 returns a bucket in    *)
(* 0 .. n_buckets - 1, the last j that was below n_buckets.               *)
C8_JumpRange ==
    /\ call.op = "get_node" => (call.result[1] >= 0 /\ call.result[1] < ring.nodes)
    /\ (frame.pc = "loop" /\ ~jump_loop_continues(ring, frame))
          => (frame.i >= 0 /\ frame.i < ring.nodes /\ jump_result(frame) = frame.i)

C8_Witness ==
    /\ call.op = "get_node" /\ ring.nodes >= 3
    /\ call.result[1] = ring.nodes - 1

(* get_node run to its end from the locals f: the loop and the cast. *)
RECURSIVE jump_get_node(_, _)
jump_get_node(r, f) ==
    IF jump_loop_continues(r, f)
    THEN jump_get_node(r, jump_loop_body(f))
    ELSE jump_result(f)

(* The ring of one more bucket, with the same hash builder. *)
jump_grown(r) == jump_with_hasher(r.nodes + 1)

(* C24: for a key hash that a jump ring of n >= 1 buckets sends to bucket  *)
(* b, the ring of n + 1 buckets with the same hash builder sends it to b   *)
(* or to the new bucket n.                                                 *)
C24_JumpMonotone ==
    call.op = "get_node"
        => LET r == call.before
               grown == jump_get_node(jump_grown(r), jump_get_node_entry(call.arg))
           IN  /\ call.result = Some(jump_get_node(r, jump_get_node_entry(call.arg)))
               /\ grown = call.result[1] \/ grown = r.nodes

(* A key of a ring of at least two buckets that the growth moves to the    *)
(* new bucket.                                                             *)
C24_Witness ==
    /\ call.op = "get_node" /\ call.before.nodes >= 2
    /\ call.result[1] < call.before.nodes
    /\ jump_get_node(jump_grown(call.before), jump_get_node_entry(call.arg)) = call.before.nodes

----------------------------------------------------------------------------
(* maglev::Ring.  Construction runs populate step by step: `frame` holds   *)
(* its locals m, n, next, entry, i and j.  Node indices are                *)
(* 0-based as in the source; sequences are 1-based, hence the "+ 1".       *)

UsizeMax == 2147483647  \* <usize>::max_value(), the mark of an unfilled entry

(* primal: Sieve::new(limit).primes_from(n), the primes from n up to the  *)
(* sieve's limit.                                                         *)
sieve_primes_from(limit, n) == {p \in n .. limit : IsPrime(p)}

maglev_capacity_above_hint(capacity_hint) ==
    LET primes == sieve_primes_from(capacity_hint * 2, capacity_hint + 1)
    IN  IF primes = {} THEN None ELSE Some(Min(primes))

(* Some(m), or None for the panic of expect("Expected a prime ..."). *)
maglev_capacity(capacity_hint) ==
    LET primes == sieve_primes_from(capacity_hint * 2, capacity_hint)
    IN  IF primes = {} THEN None ELSE Some(Min(primes))

maglev_get_hash(hasher, key) == sip_hash(hasher, key)

(* permutation[j][i], the i-th slot node j tries (0-based j and i).  The  *)
(* source builds the whole table before the filling loop; it never changes *)
(* after, so the frame keeps what it is computed from and this operator    *)
(* reads an element.                                                       *)
maglev_permutation(hashers, nodes, m, j, i) ==
    LET offset == maglev_get_hash(hashers[1], nodes[j + 1]) % m
        skip == (maglev_get_hash(hashers[2], nodes[j + 1]) % (m - 1)) + 1
    IN  (offset + i * skip) % m

(* The locals of populate when its filling loop is entered. *)
maglev_populate_entry(hashers, nodes, capacity_hint, m) ==
    [pc |-> "while", nodes |-> nodes, hashers |-> hashers,
     capacity_hint |-> capacity_hint, m |-> m, n |-> Len(nodes),
     next |-> [k \in 1 .. Len(nodes) |-> 0],
     entry |-> [k \in 1 .. m |-> UsizeMax],
     i |-> 0, j |-> 0]

(* The inner while, from index x of permutation[j]: Some(index) of the    *)
(* first unfilled slot at or after x; None when the index runs off the    *)
(* end of permutation[j] (a panic).                                       *)
RECURSIVE maglev_skip_filled(_, _)
maglev_skip_filled(f, x) ==
    IF x >= f.m THEN None
    ELSE IF f.entry[maglev_permutation(f.hashers, f.nodes, f.m, f.j, x) + 1] = UsizeMax
    THEN Some(x)
    ELSE maglev_skip_filled(f, x + 1)

maglev_next_unfilled(f) == maglev_skip_filled(f, f.next[f.j + 1])

(* The for body with its range stuck at the first node. *)
maglev_for_body_first_node_only(f) ==
    LET at == maglev_next_unfilled(f)[1]
        c == maglev_permutation(f.hashers, f.nodes, f.m, f.j, at)
        filled == [f EXCEPT !.entry[c + 1] = f.j, !.next[f.j + 1] = at + 1, !.i = f.i + 1]
    IN  IF filled.i = filled.m
        THEN [filled EXCEPT !.pc = "while"]
        ELSE filled

(* The for body with its range stepping over every other node. *)
maglev_for_body_every_other_node(f) ==
    LET at == maglev_next_unfilled(f)[1]
        c == maglev_permutation(f.hashers, f.nodes, f.m, f.j, at)
        filled == [f EXCEPT !.entry[c + 1] = f.j, !.next[f.j + 1] = at + 1, !.i = f.i + 1]
    IN  IF filled.i = filled.m
        THEN [filled EXCEPT !.pc = "while"]
        ELSE [filled EXCEPT !.j = f.j + 2]

(* One pass of the body of `for j in 0..n`, the break included. *)
maglev_for_body(f) ==
    LET at == maglev_next_unfilled(f)[1]
        c == maglev_permutation(f.hashers, f.nodes, f.m, f.j, at)
        filled == [f EXCEPT !.entry[c + 1] = f.j, !.next[f.j + 1] = at + 1, !.i = f.i + 1]
    IN  IF filled.i = filled.m
        THEN [filled EXCEPT !.pc = "while"]
        ELSE [filled EXCEPT !.j = f.j + 1]

maglev_ring(f) ==
    [kind |-> "maglev", nodes |-> f.nodes, lookup |-> f.entry, hasher |-> f.hashers[1]]

maglev_nodes(r) == Len(r.nodes)

maglev_capacity_of(r) == Len(r.lookup)

(* Some(node), or None for an index out of bounds. *)
maglev_get_node(r, key) ==
    LET index == maglev_get_hash(r.hasher, key) % maglev_capacity_of(r)
    IN  IF r.lookup[index + 1] < Len(r.nodes)
        THEN Some(r.nodes[r.lookup[index + 1] + 1])
        ELSE None

MaglevInputs == UNION {[1 .. n -> Ids] : n \in 0 .. MaxMaglevNodes}
MaglevNewInputs == UNION {[1 .. n -> Ids] : n \in 0 .. MaxNewNodes}

InitMaglev ==
    /\ ring = NoRing
    /\ call = NoCall
    /\ panicked = FALSE
    /\ twin = NoRing
    /\ frame = Idle

(* Ring::with_capacity_hint up to the entry of populate's filling loop. *)
MaglevConstruct(op, hashers, nodes, capacity_hint) ==
    /\ call' = [op |-> op, arg |-> nodes, ctor |-> op, capacity_hint |-> capacity_hint]
    /\ IF maglev_capacity(capacity_hint) = None
       THEN panicked' = TRUE /\ UNCHANGED frame
       ELSE /\ frame' = maglev_populate_entry(hashers, nodes, capacity_hint,
                                              maglev_capacity(capacity_hint)[1])
            /\ UNCHANGED panicked
    /\ UNCHANGED <<ring, twin>>

MaglevNew(hashers, nodes) ==
    /\ ~panicked /\ ring = NoRing /\ frame.pc = "idle"
    /\ IF Len(nodes) = 0
       THEN /\ panicked' = TRUE
            /\ call' = [op |-> "new", arg |-> nodes, ctor |-> "new", capacity_hint |-> 0]
            /\ UNCHANGED <<ring, twin, frame>>
       ELSE MaglevConstruct("new", hashers, nodes, Len(nodes) * 100)

MaglevWithCapacityHint(hashers, nodes, capacity_hint) ==
    /\ ~panicked /\ ring = NoRing /\ frame.pc = "idle"
    /\ MaglevConstruct("with_capacity_hint", hashers, nodes, capacity_hint)

maglev_while_stops_early(f) == f.i < f.m - 1

(* while i < m *)
maglev_while_continues(f) == f.i < f.m

(* while i < m: enter the for loop, or leave populate. *)
MaglevWhile ==
    /\ ~panicked /\ frame.pc = "while"
    /\ frame' = IF maglev_while_continues(frame)
                THEN [frame EXCEPT !.pc = "for", !.j = 0]
                ELSE [frame EXCEPT !.pc = "return"]
    /\ UNCHANGED <<ring, call, panicked, twin>>

(* for j in 0..n: one pass of the body, or the end of the range. *)
MaglevFor ==
    /\ ~panicked /\ frame.pc = "for"
    /\ IF frame.j >= frame.n
       THEN frame' = [frame EXCEPT !.pc = "while"] /\ UNCHANGED panicked
       ELSE IF maglev_next_unfilled(frame) = None
       THEN panicked' = TRUE /\ UNCHANGED frame
       ELSE frame' = maglev_for_body(frame) /\ UNCHANGED panicked
    /\ UNCHANGED <<ring, call, twin>>

MaglevReturn ==
    /\ ~panicked /\ frame.pc = "return"
    /\ ring' = maglev_ring(frame)
    /\ frame' = Idle
    /\ UNCHANGED <<call, panicked, twin>>

MaglevGetNode(key) ==
    /\ ~panicked /\ ring # NoRing /\ frame.pc = "idle"
    /\ call' = [call EXCEPT !.op = "get_node", !.arg = key]
    /\ panicked' = (maglev_get_node(ring, key) = None)
    /\ UNCHANGED <<ring, twin, frame>>

NextMaglev ==
    \/ /\ ring = NoRing /\ frame.pc = "idle"
       /\ \E hashers \in SipKeys \X SipKeys, nodes \in MaglevNewInputs :
             MaglevNew(hashers, nodes)
    \/ /\ ring = NoRing /\ frame.pc = "idle"
       /\ \E hashers \in SipKeys \X SipKeys, nodes \in MaglevInputs, hint \in 1 .. MaxHint :
             MaglevWithCapacityHint(hashers, nodes, hint)
    \/ MaglevWhile
    \/ MaglevFor
    \/ MaglevReturn
    \/ \E key \in Points : MaglevGetNode(key)

SpecMaglev == InitMaglev /\ [][NextMaglev]_vars

(* C9: a maglev ring built from a non-empty node list has capacity() the  *)
(* smallest prime >= capacity_hint, and Ring::new passes the hint         *)
(* nodes.len() * 100.                                                     *)
C9_MaglevCapacity ==
    (ring.kind = "maglev" /\ maglev_nodes(ring) >= 1)
        => /\ IsPrime(maglev_capacity_of(ring))
           /\ maglev_capacity_of(ring) >= call.capacity_hint
           /\ \A q \in call.capacity_hint .. (maglev_capacity_of(ring) - 1) : ~IsPrime(q)
           /\ call.ctor = "new" => call.capacity_hint = maglev_nodes(ring) * 100

C9_Witness ==
    /\ ring.kind = "maglev" /\ call.ctor = "new"
    /\ maglev_nodes(ring) = 1 /\ maglev_capacity_of(ring) = 101

(* C10: when construction from a non-empty node list returns, every       *)
(* lookup entry is an index below nodes.len(), none is usize::MAX, and    *)
(* get_node never indexes out of bounds.                                  *)
C10_MaglevTableValid ==
    /\ (frame.pc = "return" /\ frame.n >= 1)
          => \A k \in 1 .. frame.m : frame.entry[k] >= 0 /\ frame.entry[k] < frame.n
    /\ (ring.kind = "maglev" /\ maglev_nodes(ring) >= 1)
          => /\ \A k \in 1 .. Len(ring.lookup) :
                   ring.lookup[k] >= 0 /\ ring.lookup[k] < maglev_nodes(ring)
             /\ \A key \in Points : maglev_get_node(ring, key) # None
             /\ ~panicked

C10_Witness ==
    /\ ring.kind = "maglev" /\ maglev_nodes(ring) = 2 /\ maglev_capacity_of(ring) = 5
    /\ call.op = "get_node" /\ ~panicked
    /\ \E k \in 1 .. 5 : ring.lookup[k] = 1

(* C11: a maglev ring whose table has at least as many entries as there   *)
(* are nodes (n >= 1) holds every node index 0 .. n-1 in at least one      *)
(* lookup entry.                                                           *)
C11_MaglevCoverage ==
    (ring.kind = "maglev" /\ maglev_nodes(ring) >= 1
        /\ maglev_capacity_of(ring) >= maglev_nodes(ring))
        => \A j \in 0 .. (maglev_nodes(ring) - 1) :
              \E k \in 1 .. maglev_capacity_of(ring) : ring.lookup[k] = j

(* A table exactly as long as the node list, every node in it. *)
C11_Witness ==
    /\ ring.kind = "maglev" /\ maglev_nodes(ring) = 3 /\ maglev_capacity_of(ring) = 3
    /\ \A j \in 0 .. 2 : \E k \in 1 .. 3 : ring.lookup[k] = j

(* The number of lookup entries that hold node index j. *)
maglev_owned(j) == Cardinality({k \in 1 .. maglev_capacity_of(ring) : ring.lookup[k] = j})

(* C23: in a maglev ring of n >= 1 nodes and M lookup entries, node index  *)
(* j owns floor(M / n) entries, and one more when j < M mod n, so the      *)
(* numbers owned by any two nodes differ by at most 1.                     *)
C23_MaglevBalance ==
    (ring.kind = "maglev" /\ maglev_nodes(ring) >= 1)
        => LET n == maglev_nodes(ring)
               M == maglev_capacity_of(ring)
           IN  /\ \A j \in 0 .. (n - 1) :
                     maglev_owned(j) = (M \div n) + (IF j < M % n THEN 1 ELSE 0)
               /\ \A j, l \in 0 .. (n - 1) :
                     maglev_owned(j) - maglev_owned(l) \in {0 - 1, 0, 1}

(* Three nodes on five entries: the first two own two, the last owns one. *)
C23_Witness ==
    /\ ring.kind = "maglev" /\ maglev_nodes(ring) = 3 /\ maglev_capacity_of(ring) = 5
    /\ maglev_owned(0) = 2 /\ maglev_owned(1) = 2 /\ maglev_owned(2) = 1

(* A constructor that was called keeps running: the steps of populate and  *)
(* the return of the ring are taken whenever they are enabled.             *)
SpecMaglevFair ==
    /\ SpecMaglev
    /\ WF_vars(MaglevWhile) /\ WF_vars(MaglevFor) /\ WF_vars(MaglevReturn)

(* C12: every construction that entered populate, from Ring::new or       *)
(* Ring::with_capacity_hint with any node list and any hint >= 1,          *)
(* eventually returns its ring or fails.                                   *)
C12_MaglevTerminates ==
    (frame.pc # "idle") ~> (frame.pc = "idle" \/ panicked)

(* C13: Ring::new of an empty node list fails, Ring::with_capacity_hint   *)
(* of an empty node list eventually fails, and no ring with nodes() = 0    *)
(* is ever produced.                                                       *)
C13_MaglevRejectsEmpty ==
    /\ []((call.op = "new" /\ Len(call.arg) = 0) => panicked)
    /\ [](ring.kind = "maglev" => maglev_nodes(ring) >= 1)
    /\ (frame.pc # "idle" /\ frame.n = 0) ~> panicked

====
